---- MODULE Spec2Model ----
(***************************************************************************)
(* wpmax: the MySQL connection prober (src/mysql-detector.js) and the      *)
(* system diagnostics (src/doctor.js).                                     *)
(*                                                                         *)
(* External commands (execa) and the filesystem are the environment: an    *)
(* external command is issued by one step and returns, with a              *)
(* nondeterministic outcome, in a later step; everything the code does     *)
(* between two awaits is one step.                                         *)
(***************************************************************************)
EXTENDS Naturals, Sequences, FiniteSets, TLC

VARIABLES
    files,            \* the paths that exist on the filesystem
    connectionCache,  \* mysql-detector.js: connectionCache, keyed by user
    calls,            \* the getMySQLConnection calls of the process, in start order
    doctor,           \* doctor.js: a DoctorCheck instance and its runAllChecks call
    system,           \* what the machine answers, where a run is repeated on it
    returned,         \* the reports of the runs before the present one
    registry,         \* site-registry.js: what ~/.config/wpmax/sites.json holds
    databases,        \* the names of the databases of the MySQL server
    cli,              \* bin/index.js: the wpmax command of this process
    clock,            \* Date.now()
    lastUpdateCheck,  \* config.json: the value under lastUpdateCheck
    autoCheck         \* updater.js: what the last shouldAutoCheck() returned

cliVars == <<registry, databases, cli>>
updaterVars == <<clock, lastUpdateCheck, autoCheck>>

vars == <<files, connectionCache, calls, doctor, system, returned,
          registry, databases, cli, clock, lastUpdateCheck, autoCheck>>

-----------------------------------------------------------------------------
(* Bounds *)

\* getMySQLConnection calls made in one process lifetime; all may overlap
MaxCalls == 2

\* socket paths of COMMON_SOCKET_PATHS that exist on the machine
MaxSockets == 2

\* runAllChecks runs made one after the other on the same machine
MaxRuns == 2

\* the identities the calls are made with
Users == {"root", "admin"}

CallIds == 1..MaxCalls

-----------------------------------------------------------------------------
(* JavaScript values *)

Undefined == "<undefined>"
Null == "<null>"

\* a string used as a condition: undefined, null and "" are falsy
Truthy(v) == v # Undefined /\ v # Null /\ v # ""

-----------------------------------------------------------------------------
(* A process that runs no wpmax command and never asks the updater *)

\* no command has been started: the registry is empty and no site exists
IdleCli == [command |-> "none", pc |-> "idle", exitCode |-> Undefined]

\* sites.json as JSON.stringify({ sites }, null, 2) writes it, and with
\* something JSON.parse rejects in it
Written(sites) == [readable |-> TRUE, sites |-> sites]
Unreadable == [readable |-> FALSE, sites |-> << >>]

NoCli ==
    /\ registry = Written(<< >>)
    /\ databases = {}
    /\ cli = IdleCli

\* config.json has no lastUpdateCheck key, or holds a number of milliseconds
NoLastCheck == [recorded |-> FALSE]
LastCheck(ms) == [recorded |-> TRUE, ms |-> ms]

\* shouldAutoCheck has not been called, or has returned a boolean
NotAsked == [asked |-> FALSE]
Answered(b) == [asked |-> TRUE, value |-> b]

NoUpdater ==
    /\ clock = 0
    /\ lastUpdateCheck = NoLastCheck
    /\ autoCheck = NotAsked

-----------------------------------------------------------------------------
(* src/mysql-detector.js *)

COMMON_SOCKET_PATHS ==
    << "/tmp/mysql_3306.sock",
       "/tmp/mysql.sock",
       "/var/run/mysqld/mysqld.sock",
       "/Applications/MAMP/tmp/mysql/mysql.sock",
       "/opt/homebrew/var/mysql/mysql.sock",
       "/usr/local/var/mysql/mysql.sock" >>

TCP_OPTIONS == << "127.0.0.1", "localhost" >>

Range(s) == { s[k] : k \in 1..Len(s) }

SocketPaths == Range(COMMON_SOCKET_PATHS)

\* fs.existsSync(path)
existsSync(path) == path \in files

\* an external command as handed to execa, and how it ended
Exec(cmd, args) == [cmd |-> cmd, args |-> args, status |-> "pending"]

\* the command of testMysqlConnection(socketPath, host, user)
testMysqlConnectionCmd(socketPath, host, user) ==
    LET target == IF Truthy(socketPath) THEN << "--socket=" \o socketPath >>
                  ELSE IF Truthy(host) THEN << "-h" \o host >>
                  ELSE << >>
    IN  Exec("mysql", target \o << "-u" \o user, "-e", "SELECT 1", "--silent" >>)

VersionCmd == Exec("mysql", << "--version" >>)

ClientNotInstalledMessage ==
    << "MySQL client is not installed or not in PATH. Please install MySQL." >>

\* variant: only the socket paths that were probed are listed
NoConnectionMessageProbedOnly ==
    << "Could not detect MySQL connection. Please ensure MySQL is running.",
       "", "TCP/IP connections tried:" >>
    \o [k \in 1..Len(TCP_OPTIONS) |-> "  - " \o TCP_OPTIONS[k]]
    \o << "", "Socket locations checked:" >>
    \o SelectSeq([k \in 1..Len(COMMON_SOCKET_PATHS) |-> "  - " \o COMMON_SOCKET_PATHS[k]],
                 LAMBDA line : \E q \in files : line = "  - " \o q)

\* the lines of the error thrown when no candidate worked
NoConnectionMessage ==
    << "Could not detect MySQL connection. Please ensure MySQL is running.",
       "", "TCP/IP connections tried:" >>
    \o [k \in 1..Len(TCP_OPTIONS) |-> "  - " \o TCP_OPTIONS[k]]
    \o << "", "Socket locations checked:" >>
    \o [k \in 1..Len(COMMON_SOCKET_PATHS) |-> "  - " \o COMMON_SOCKET_PATHS[k]]

\* a detectMySQLConnection activation that has not started
NoDetect ==
    [pc |-> "none", group |-> "none", i |-> 0, log |-> << >>,
     value |-> Undefined, error |-> << >>]

\* detectMySQLConnection(user) up to its first await: mysql --version is issued
DetectStart == [NoDetect EXCEPT !.pc = "version", !.log = << VersionCmd >>]

Issue(d, group, i, cmd) ==
    [d EXCEPT !.pc = "probe", !.group = group, !.i = i, !.log = Append(@, cmd)]

Throw(d, message) == [d EXCEPT !.pc = "threw", !.error = message]

Return(d, value) == [d EXCEPT !.pc = "returned", !.value = value]

\* variant: the socket loop without the existsSync test
SocketLoopNoExists(d, j, user) ==
    IF j > Len(COMMON_SOCKET_PATHS) THEN Throw(d, NoConnectionMessage)
    ELSE Issue(d, "socket", j,
               testMysqlConnectionCmd(COMMON_SOCKET_PATHS[j], Null, user))

\* the socket loop from COMMON_SOCKET_PATHS[j] on, up to its next await or the throw
RECURSIVE SocketLoop(_, _, _)
SocketLoop(d, j, user) ==
    IF j > Len(COMMON_SOCKET_PATHS) THEN Throw(d, NoConnectionMessage)
    ELSE IF existsSync(COMMON_SOCKET_PATHS[j])
         THEN Issue(d, "socket", j,
                    testMysqlConnectionCmd(COMMON_SOCKET_PATHS[j], Null, user))
         ELSE SocketLoop(d, j + 1, user)

\* variant: the TCP loop stops one option short
TcpLoopOneShort(d, i, user) ==
    IF i < Len(TCP_OPTIONS)
    THEN Issue(d, "tcp", i, testMysqlConnectionCmd(Null, TCP_OPTIONS[i], user))
    ELSE SocketLoop(d, 1, user)

\* the TCP loop from TCP_OPTIONS[i] on, up to its next await
TcpLoop(d, i, user) ==
    IF i <= Len(TCP_OPTIONS)
    THEN Issue(d, "tcp", i, testMysqlConnectionCmd(Null, TCP_OPTIONS[i], user))
    ELSE SocketLoop(d, 1, user)

\* the pending command of d has ended
Settle(d, ok) ==
    [d EXCEPT !.log[Len(d.log)].status = IF ok THEN "ok" ELSE "failed"]

\* variant: the outcome of mysql --version is ignored
OnVersionIgnored(d, ok, user) == TcpLoop(Settle(d, ok), 1, user)

\* detectMySQLConnection resumes after mysql --version
OnVersion(d, ok, user) ==
    IF ok THEN TcpLoop(Settle(d, ok), 1, user)
    ELSE Throw(Settle(d, ok), ClientNotInstalledMessage)

\* variant: a working socket is returned as its bare path
OnProbeBarePath(d, ok, user) ==
    LET s == Settle(d, ok) IN
    IF ok THEN
        IF d.group = "tcp" THEN Return(s, TCP_OPTIONS[d.i])
        ELSE Return(s, COMMON_SOCKET_PATHS[d.i])
    ELSE
        IF d.group = "tcp" THEN TcpLoop(s, d.i + 1, user)
        ELSE SocketLoop(s, d.i + 1, user)

\* variant: the TCP loop goes on after a success and the last option wins
OnProbeExhaustive(d, ok, user) ==
    LET s == Settle(d, ok) IN
    IF d.group = "tcp" THEN
        IF d.i < Len(TCP_OPTIONS) THEN TcpLoop(s, d.i + 1, user)
        ELSE IF ok THEN Return(s, TCP_OPTIONS[d.i])
        ELSE SocketLoop(s, d.i + 1, user)
    ELSE
        IF ok THEN Return(s, "localhost:" \o COMMON_SOCKET_PATHS[d.i])
        ELSE SocketLoop(s, d.i + 1, user)

\* detectMySQLConnection resumes after testMysqlConnection
OnProbe(d, ok, user) ==
    LET s == Settle(d, ok) IN
    IF ok THEN
        IF d.group = "tcp" THEN Return(s, TCP_OPTIONS[d.i])
        ELSE Return(s, "localhost:" \o COMMON_SOCKET_PATHS[d.i])
    ELSE
        IF d.group = "tcp" THEN TcpLoop(s, d.i + 1, user)
        ELSE SocketLoop(s, d.i + 1, user)

-----------------------------------------------------------------------------
(* getMySQLConnection calls *)

\* history of a call, set when it starts: afterSuccess, a call with the same
\* user had already succeeded; firstForUser, no call with the same user had
\* started; cachedAtStart, the users that had a cache entry
IdleCall ==
    [pc |-> "idle", user |-> Undefined, d |-> NoDetect,
     result |-> Undefined, error |-> << >>,
     afterSuccess |-> FALSE, firstForUser |-> FALSE, cachedAtStart |-> {}]

\* the property of connectionCache a user's entry is kept under
CacheKeyShared(user) == "root"

CacheKey(user) == user

\* the test of getMySQLConnection for a usable entry
CacheHitNever(user) == FALSE

CacheHit(user) == Truthy(connectionCache[CacheKey(user)])

\* the user parameter with its default
UserArg(u) == IF u = Undefined THEN "root" ELSE u

\* variant: a failed detection is remembered in the cache
GetResumeFailureCached(c, d) ==
    LET user == calls[c].user IN
    CASE d.pc = "returned" ->
            /\ connectionCache' = [connectionCache EXCEPT ![CacheKey(user)] = d.value]
            /\ calls' = [calls EXCEPT ![c].d = d, ![c].pc = "done",
                                      ![c].result = connectionCache'[CacheKey(user)]]
      [] d.pc = "threw" ->
            /\ calls' = [calls EXCEPT ![c].d = d, ![c].pc = "failed",
                                      ![c].error = d.error]
            /\ connectionCache' = [connectionCache EXCEPT ![CacheKey(user)] = "<failed>"]
      [] OTHER ->
            /\ calls' = [calls EXCEPT ![c].d = d]
            /\ UNCHANGED connectionCache

\* getMySQLConnection(user) resumes with the outcome d of its detection
GetResume(c, d) ==
    LET user == calls[c].user IN
    CASE d.pc = "returned" ->
            /\ connectionCache' = [connectionCache EXCEPT ![CacheKey(user)] = d.value]
            /\ calls' = [calls EXCEPT ![c].d = d, ![c].pc = "done",
                                      ![c].result = connectionCache'[CacheKey(user)]]
      [] d.pc = "threw" ->
            /\ calls' = [calls EXCEPT ![c].d = d, ![c].pc = "failed",
                                      ![c].error = d.error]
            /\ UNCHANGED connectionCache
      [] OTHER ->
            /\ calls' = [calls EXCEPT ![c].d = d]
            /\ UNCHANGED connectionCache

\* getMySQLConnection(u) is called: the cache lookup, and on a miss the start
\* of the detection
GetMySQLConnection(c, u) ==
    LET user == UserArg(u)
        started == { k \in CallIds : calls[k].pc # "idle" }
        h == [calls[c] EXCEPT
                !.user = user,
                !.afterSuccess =
                    \E k \in started : calls[k].pc = "done" /\ calls[k].user = user,
                !.firstForUser =
                    \A k \in started : calls[k].user # user,
                !.cachedAtStart =
                    { w \in Users : Truthy(connectionCache[w]) }]
    IN
    /\ calls[c].pc = "idle"
    /\ \A k \in 1..(c - 1) : calls[k].pc # "idle"
    /\ IF ~CacheHit(user)
       THEN calls' = [calls EXCEPT ![c] = [h EXCEPT !.pc = "detecting", !.d = DetectStart]]
       ELSE calls' = [calls EXCEPT ![c] = [h EXCEPT !.pc = "done",
                                                    !.result = connectionCache[CacheKey(user)]]]
    /\ UNCHANGED <<files, connectionCache, doctor, system, returned, cliVars, updaterVars>>

\* mysql --version ends
VersionReturn(c, ok) ==
    /\ calls[c].pc = "detecting"
    /\ calls[c].d.pc = "version"
    /\ GetResume(c, OnVersion(calls[c].d, ok, calls[c].user))
    /\ UNCHANGED <<files, doctor, system, returned, cliVars, updaterVars>>

\* a connection probe ends
ProbeReturn(c, ok) ==
    /\ calls[c].pc = "detecting"
    /\ calls[c].d.pc = "probe"
    /\ GetResume(c, OnProbe(calls[c].d, ok, calls[c].user))
    /\ UNCHANGED <<files, doctor, system, returned, cliVars, updaterVars>>

-----------------------------------------------------------------------------
(* src/doctor.js: DoctorCheck *)

\* path.join(__dirname, '../bin/wp-cli.phar'), os.homedir(), process.cwd()
WP_CLI_PATH == "/usr/lib/wpmax/bin/wp-cli.phar"
HomeDir == "/home/user"
Cwd == "/home/user/project"

SitesDir == HomeDir \o "/Sites"
ConfigDir == HomeDir \o "/.config/wpmax"
CONFIG_FILE == ConfigDir \o "/config.json"

\* how an external command ends: it fails (execa rejects) or prints stdout
Rejected == [ok |-> FALSE, error |-> "Command failed"]
Printed(stdout) == [ok |-> TRUE, stdout |-> stdout]

\* the stdout of a --version command: a label and the dotted triple after it
\* (<< >>: no triple follows)
VersionLine(label, triple) == [label |-> label, triple |-> triple]

VersionText(triple) ==
    ToString(triple[1]) \o "." \o ToString(triple[2]) \o "." \o ToString(triple[3])

\* stdout.match(/<label> (\d+\.\d+\.\d+)/)?.[1]
MatchVersion(label, stdout) ==
    IF stdout.label = label /\ Len(stdout.triple) = 3
    THEN VersionText(stdout.triple)
    ELSE Undefined

\* new DoctorCheck(), no check called
NewDoctor ==
    [pc |-> "idle", issues |-> << >>, results |-> [n \in {} |-> {}],
     log |-> << >>, det |-> NoDetect, version |-> Undefined, triple |-> << >>,
     report |-> [n \in {} |-> {}], thrown |-> Undefined]

\* variant: the issue is put at the front of the list (unshift)
PushFront(D, description, fix) ==
    [D EXCEPT !.issues = << [description |-> description, fix |-> fix] >> \o @]

\* this.issues.push({description, fix})
Push(D, description, fix) ==
    [D EXCEPT !.issues = Append(@, [description |-> description, fix |-> fix])]

\* a check returns result; runAllChecks goes on with the check at pc
Result(D, name, result, pc) ==
    [D EXCEPT !.results = (name :> result) @@ @, !.pc = pc]

\* a check throws: the await in runAllChecks throws and runAllChecks rejects
Reject(D, error) == [D EXCEPT !.pc = "rejected", !.thrown = error]

\* await execa(cmd, args)
Run(D, cmd, pc) == [D EXCEPT !.log = Append(@, cmd), !.pc = pc]

Ended(D, out) ==
    [D EXCEPT !.log[Len(D.log)].status = IF out.ok THEN "ok" ELSE "failed"]

(* checkWpCli *)

\* variant: a failed invocation is reported like a missing file
checkWpCliCatchNotFound(D, error) ==
    Result(Push(D, "WP-CLI not found",
                "Will be auto-downloaded on first site creation"),
           "wpCli", [ok |-> FALSE, error |-> "Not found"], "checkPhp")

checkWpCliCatch(D, error) ==
    Result(Push(D, "WP-CLI not accessible",
                "Ensure PHP is installed and WP-CLI phar is executable"),
           "wpCli", [ok |-> FALSE, error |-> "Not accessible"], "checkPhp")

checkWpCli(D) ==
    IF ~existsSync(WP_CLI_PATH)
    THEN Result(Push(D, "WP-CLI not found",
                     "Will be auto-downloaded on first site creation"),
                "wpCli", [ok |-> FALSE, error |-> "Not found"], "checkPhp")
    ELSE Run(D, Exec("php", << WP_CLI_PATH, "--version" >>), "wpCli.version")

checkWpCliVersion(D, out) ==
    LET S == Ended(D, out)
        m == MatchVersion("WP-CLI", out.stdout)
    IN  IF ~out.ok THEN checkWpCliCatch(S, out.error)
        ELSE Result(S, "wpCli",
                    [ok |-> TRUE, version |-> IF Truthy(m) THEN m ELSE "unknown"],
                    "checkPhp")

(* checkPhp *)

required == << "mysqli", "curl", "json", "mbstring" >>

\* String.prototype.toLowerCase on the module names php -m prints
toLowerCase(name) ==
    CASE name = "MySQLi" -> "mysqli"
      [] name = "cURL" -> "curl"
      [] name = "JSON" -> "json"
      [] name = "Core" -> "core"
      [] OTHER -> name

\* variant: the names are compared as printed, without toLowerCase
includesAsPrinted(extensions, ext) == ext \in extensions

\* extensions.toLowerCase().includes(ext.toLowerCase()), extensions being the
\* lines php -m printed; no printed name has a required name inside a longer one
includes(extensions, ext) ==
    \E name \in extensions : toLowerCase(name) = toLowerCase(ext)

\* Array.prototype.join(', ')
RECURSIVE join(_)
join(names) ==
    IF names = << >> THEN ""
    ELSE IF Len(names) = 1 THEN names[1]
    ELSE names[1] \o ", " \o join(Tail(names))

checkPhpCatch(D, error) ==
    Result(Push(D, "PHP not found",
                "Install PHP: brew install php (macOS) or apt install php (Linux)"),
           "php", [ok |-> FALSE, error |-> "Not installed"], "checkMySQL")

checkPhp(D) == Run(D, Exec("php", << "--version" >>), "php.version")

\* variant: the minor number is tested whatever the major number below 8
checkPhpVersionMinorOnly(D, out) ==
    LET S == Ended(D, out)
        version == MatchVersion("PHP", out.stdout)
        major == out.stdout.triple[1]
        minor == out.stdout.triple[2]
        W == IF major <= 7 /\ minor < 4
             THEN Push(S, "PHP " \o version \o " is outdated (minimum: 7.4)",
                       "Update PHP: brew upgrade php (macOS) or apt upgrade php (Linux)")
             ELSE S
    IN  IF ~out.ok THEN checkPhpCatch(S, out.error)
        ELSE IF ~Truthy(version) THEN checkPhpCatch(S, "Could not parse PHP version")
        ELSE Run([W EXCEPT !.version = version, !.triple = out.stdout.triple],
                 Exec("php", << "-m" >>), "php.modules")

checkPhpVersion(D, out) ==
    LET S == Ended(D, out)
        version == MatchVersion("PHP", out.stdout)
        major == out.stdout.triple[1]
        minor == out.stdout.triple[2]
        W == IF major < 7 \/ (major = 7 /\ minor < 4)
             THEN Push(S, "PHP " \o version \o " is outdated (minimum: 7.4)",
                       "Update PHP: brew upgrade php (macOS) or apt upgrade php (Linux)")
             ELSE S
    IN  IF ~out.ok THEN checkPhpCatch(S, out.error)
        ELSE IF ~Truthy(version) THEN checkPhpCatch(S, "Could not parse PHP version")
        ELSE Run([W EXCEPT !.version = version, !.triple = out.stdout.triple],
                 Exec("php", << "-m" >>), "php.modules")

checkPhpModules(D, out) ==
    LET S == Ended(D, out)
        missing == SelectSeq(required, LAMBDA ext : ~includes(out.stdout, ext))
        W == IF Len(missing) > 0
             THEN Push(S, "Missing PHP extensions: " \o join(missing),
                       "Install missing extensions via your PHP package manager")
             ELSE S
    IN  IF ~out.ok THEN checkPhpCatch(S, out.error)
        ELSE Result(W, "php",
                    [ok |-> TRUE, version |-> D.version, missingExtensions |-> missing],
                    "checkMySQL")

(* checkMySQL *)

checkMySQLClientCatch(D, error) ==
    Result(Push(D, "MySQL client not found",
                "Install MySQL: brew install mysql (macOS) or install Laravel Herd"),
           "mysql", [ok |-> FALSE, error |-> "MySQL client not installed"], "checkHerd")

\* variant: the error of detectMySQLConnection is not caught
checkMySQLRethrow(D, error) == Reject(D, error)

checkMySQLCatch(D, error) ==
    Result(Push(D, "MySQL not accessible",
                "Start MySQL: brew services start mysql, or install/start Laravel Herd"),
           "mysql", [ok |-> FALSE, error |-> "Not accessible"], "checkHerd")

checkMySQL(D) == Run(D, VersionCmd, "mysql.version")

\* variant: a connection getMySQLConnection cached for root is returned
\* without a detection
checkMySQLVersionCached(D, out) ==
    LET S == Ended(D, out) IN
    IF ~out.ok THEN checkMySQLClientCatch(S, out.error)
    ELSE IF Truthy(connectionCache["root"])
    THEN Result(S, "mysql", [ok |-> TRUE, connection |-> connectionCache["root"]],
                "checkHerd")
    ELSE [S EXCEPT !.det = DetectStart, !.pc = "mysql.detect"]

\* mysql --version has ended: on success detectMySQLConnection('root') starts
checkMySQLVersion(D, out) ==
    LET S == Ended(D, out) IN
    IF ~out.ok THEN checkMySQLClientCatch(S, out.error)
    ELSE [S EXCEPT !.det = DetectStart, !.pc = "mysql.detect"]

\* checkMySQL resumes with the outcome d of detectMySQLConnection('root')
checkMySQLDetect(D, d) ==
    LET S == [D EXCEPT !.det = d] IN
    CASE d.pc = "returned" ->
            Result(S, "mysql", [ok |-> TRUE, connection |-> d.value], "checkHerd")
      [] d.pc = "threw" -> checkMySQLCatch(S, d.error)
      [] OTHER -> S

(* checkHerd, with isHerdInstalled of herd-manager.js *)

\* the stdout of herd --version: text within leading and trailing white space
HerdLine(lead, text, trail) == [lead |-> lead, text |-> text, trail |-> trail]

\* String.prototype.trim
trim(stdout) == stdout.text

\* variant: a failing version command is reported as an issue
checkHerdCatchReported(D, error) ==
    Result(Push(D, "Laravel Herd not accessible", Undefined),
           "herd", [ok |-> FALSE, error |-> "Not accessible"], "checkPermissions")

checkHerdCatch(D, error) ==
    Result(D, "herd", [ok |-> TRUE, installed |-> FALSE], "checkPermissions")

\* isHerdInstalled() issues herd --version
checkHerd(D) == Run(D, Exec("herd", << "--version" >>), "herd.installed")

\* isHerdInstalled() returns out.ok
checkHerdInstalled(D, out) ==
    LET S == Ended(D, out) IN
    IF out.ok THEN Run(S, Exec("herd", << "--version" >>), "herd.version")
    ELSE Result(S, "herd", [ok |-> TRUE, installed |-> FALSE], "checkPermissions")

checkHerdVersion(D, out) ==
    LET S == Ended(D, out) IN
    IF ~out.ok THEN checkHerdCatch(S, out.error)
    ELSE Result(S, "herd",
                [ok |-> TRUE, installed |-> TRUE, version |-> trim(out.stdout)],
                "checkPermissions")

(* checkPermissions *)

testFile(dir) == dir \o "/.wpmax-test"

testDirs == << Cwd >> \o (IF existsSync(SitesDir) THEN << SitesDir >> ELSE << >>)

\* what writeFileSync and unlinkSync do in a directory
FsOutcomes == {"ok", "writeThrows", "unlinkThrows"}

\* variant: the failure is reported as an issue and not listed in failedDirs
checkPermissionsCatchUnlisted(P, dir) ==
    [P EXCEPT !.D = Push(@, "No write permission: " \o dir, "chmod 755 " \o dir)]

checkPermissionsCatch(P, dir) ==
    [P EXCEPT !.failedDirs = Append(@, dir),
              !.D = Push(@, "No write permission: " \o dir, "chmod 755 " \o dir)]

\* variant: the marker is written and never deleted
RECURSIVE checkPermissionsLoopNoUnlink(_, _, _)
checkPermissionsLoopNoUnlink(P, k, fsOut) ==
    IF k > Len(testDirs) THEN P
    ELSE LET dir == testDirs[k]
             written == [P EXCEPT !.files = @ \cup {testFile(dir)}]
         IN  checkPermissionsLoopNoUnlink(
                 CASE fsOut[dir] = "writeThrows" -> checkPermissionsCatch(P, dir)
                   [] fsOut[dir] = "unlinkThrows" -> checkPermissionsCatch(written, dir)
                   [] OTHER -> written,
                 k + 1, fsOut)

\* the loop over testDirs from testDirs[k] on; P holds failedDirs, the doctor
\* and the files
RECURSIVE checkPermissionsLoop(_, _, _)
checkPermissionsLoop(P, k, fsOut) ==
    IF k > Len(testDirs) THEN P
    ELSE LET dir == testDirs[k]
             written == [P EXCEPT !.files = @ \cup {testFile(dir)}]
             unlinked == [P EXCEPT !.files = @ \ {testFile(dir)}]
         IN  checkPermissionsLoop(
                 CASE fsOut[dir] = "writeThrows" -> checkPermissionsCatch(P, dir)
                   [] fsOut[dir] = "unlinkThrows" -> checkPermissionsCatch(written, dir)
                   [] OTHER -> unlinked,
                 k + 1, fsOut)

checkPermissions(D, fsOut) ==
    LET P == checkPermissionsLoop([failedDirs |-> << >>, D |-> D, files |-> files],
                                  1, fsOut)
    IN  [P EXCEPT !.D =
            IF Len(P.failedDirs) > 0
            THEN Result(P.D, "permissions",
                        [ok |-> FALSE, failedDirs |-> P.failedDirs], "checkConfig")
            ELSE Result(P.D, "permissions", [ok |-> TRUE], "checkConfig")]

(* checkConfig, with getConfig of config.js *)

\* what JSON.parse makes of the config file: an object with its keys, null, or
\* a SyntaxError
JsonObject(keys) == [type |-> "object", keys |-> keys]
JsonNull == [type |-> "null", keys |-> {}]
JsonInvalid == [type |-> "invalid", keys |-> {}]

ConfigContents ==
    { JsonObject({}), JsonObject({"dbUser", "defaultPlugins"}), JsonNull, JsonInvalid }

getConfig(content) ==
    IF ~existsSync(CONFIG_FILE) THEN JsonObject({})
    ELSE IF content.type = "invalid" THEN JsonObject({})
    ELSE content

\* variant: the catch reports a message of its own
checkConfigCatchReworded(D, error) ==
    Result(Push(D, "Config file error", "Run any wpmax command to regenerate config"),
           "config", [ok |-> FALSE, error |-> "Invalid config"], "collect")

checkConfigCatch(D, error) ==
    Result(Push(D, "Config file error", "Run any wpmax command to regenerate config"),
           "config", [ok |-> FALSE, error |-> error], "collect")

checkConfig(D, content) ==
    LET config == getConfig(content) IN
    IF config.type = "null"
    THEN checkConfigCatch(D, "Cannot convert undefined or null to object")
    ELSE Result(D, "config",
                [ok |-> TRUE, exists |-> existsSync(CONFIG_FILE), path |-> CONFIG_FILE,
                 hasSettings |-> Cardinality(config.keys) > 0],
                "collect")

(* getEnvironmentInfo, runAllChecks *)

getEnvironmentInfo(shell) ==
    [os |-> "linux", osVersion |-> "6.1.0", node |-> "v20.11.0", arch |-> "x64",
     shell |-> IF Truthy(shell) THEN shell ELSE "unknown",
     configPath |-> ConfigDir]

\* the results object of runAllChecks; its issues property is the array
\* this.issues itself, not a copy
collect(D, shell) ==
    [D EXCEPT !.report = ("environment" :> getEnvironmentInfo(shell))
                         @@ ("issues" :> "this.issues") @@ D.results,
              !.pc = "done"]

\* the issues of the report of D
ReportIssues(D) == D.issues

-----------------------------------------------------------------------------
(* The environment of a diagnostic run *)

WpCliOutcomes ==
    { Rejected,
      Printed(VersionLine("WP-CLI", << 2, 9, 0 >>)),
      Printed(VersionLine("WP-CLI", << >>)) }

PhpVersionOutcomes ==
    { Rejected,
      Printed(VersionLine("PHP", << 7, 3, 0 >>)),
      Printed(VersionLine("PHP", << 7, 4, 33 >>)),
      Printed(VersionLine("PHP", << 8, 2, 15 >>)),
      Printed(VersionLine("", << >>)) }

PhpModuleOutcomes ==
    { Rejected,
      Printed({"Core", "mysqli", "curl", "json", "mbstring"}),
      Printed({"Core", "MySQLi", "JSON"}),
      Printed({}) }

HerdOutcomes == { Rejected, Printed(HerdLine("", "Laravel Herd 1.7.3", "\n")) }

MySQLVersionOutcomes == { Rejected, Printed("mysql  Ver 8.0.33") }

Shells == { Undefined, "/bin/zsh" }

-----------------------------------------------------------------------------
(* runAllChecks, step by step *)

DoctorStep(pc, D) ==
    /\ doctor.pc = pc
    /\ doctor' = D
    /\ UNCHANGED <<files, connectionCache, calls, system, returned, cliVars, updaterVars>>

RunAllChecks == DoctorStep("idle", [doctor EXCEPT !.pc = "checkWpCli"])

CheckWpCli == DoctorStep("checkWpCli", checkWpCli(doctor))

WpCliVersionReturn(out) == DoctorStep("wpCli.version", checkWpCliVersion(doctor, out))

CheckPhp == DoctorStep("checkPhp", checkPhp(doctor))

PhpVersionReturn(out) == DoctorStep("php.version", checkPhpVersion(doctor, out))

PhpModulesReturn(out) == DoctorStep("php.modules", checkPhpModules(doctor, out))

CheckMySQL == DoctorStep("checkMySQL", checkMySQL(doctor))

MySQLVersionReturn(out) == DoctorStep("mysql.version", checkMySQLVersion(doctor, out))

MySQLDetectVersionReturn(ok) ==
    /\ doctor.det.pc = "version"
    /\ DoctorStep("mysql.detect",
                  checkMySQLDetect(doctor, OnVersion(doctor.det, ok, "root")))

MySQLDetectProbeReturn(ok) ==
    /\ doctor.det.pc = "probe"
    /\ DoctorStep("mysql.detect",
                  checkMySQLDetect(doctor, OnProbe(doctor.det, ok, "root")))

CheckHerd == DoctorStep("checkHerd", checkHerd(doctor))

HerdInstalledReturn(out) == DoctorStep("herd.installed", checkHerdInstalled(doctor, out))

HerdVersionReturn(out) == DoctorStep("herd.version", checkHerdVersion(doctor, out))

CheckPermissions(fsOut) ==
    /\ doctor.pc = "checkPermissions"
    /\ doctor' = checkPermissions(doctor, fsOut).D
    /\ files' = checkPermissions(doctor, fsOut).files
    /\ UNCHANGED <<connectionCache, calls, system, returned, cliVars, updaterVars>>

CheckConfig(content) == DoctorStep("checkConfig", checkConfig(doctor, content))

ReturnReport(shell) == DoctorStep("collect", collect(doctor, shell))

-----------------------------------------------------------------------------

Init ==
    /\ files \in { S \in SUBSET SocketPaths : Cardinality(S) <= MaxSockets }
    /\ connectionCache = [u \in Users |-> Undefined]
    /\ calls = [c \in CallIds |-> IdleCall]
    /\ doctor = NewDoctor
    /\ system = Undefined
    /\ returned = << >>
    /\ NoCli
    /\ NoUpdater

Next ==
    \/ \E c \in CallIds, u \in Users \cup {Undefined} : GetMySQLConnection(c, u)
    \/ \E c \in CallIds, ok \in BOOLEAN : VersionReturn(c, ok)
    \/ \E c \in CallIds, ok \in BOOLEAN : ProbeReturn(c, ok)

Spec == Init /\ [][Next]_vars

\* a diagnostic run on a machine with any of the WP-CLI phar, ~/Sites and the
\* config file, and with or without a MySQL socket
DoctorInit ==
    /\ files \in { A \cup B : A \in SUBSET {WP_CLI_PATH, SitesDir, CONFIG_FILE},
                             B \in {{}, {"/tmp/mysql.sock"}} }
    /\ connectionCache = [u \in Users |-> Undefined]
    /\ calls = [c \in CallIds |-> IdleCall]
    /\ doctor = NewDoctor
    /\ system = Undefined
    /\ returned = << >>
    /\ NoCli
    /\ NoUpdater

DoctorNext ==
    \/ RunAllChecks
    \/ CheckWpCli
    \/ \E out \in WpCliOutcomes : WpCliVersionReturn(out)
    \/ CheckPhp
    \/ \E out \in PhpVersionOutcomes : PhpVersionReturn(out)
    \/ \E out \in PhpModuleOutcomes : PhpModulesReturn(out)
    \/ CheckMySQL
    \/ \E out \in MySQLVersionOutcomes : MySQLVersionReturn(out)
    \/ \E ok \in BOOLEAN : MySQLDetectVersionReturn(ok)
    \/ \E ok \in BOOLEAN : MySQLDetectProbeReturn(ok)
    \/ CheckHerd
    \/ \E out \in HerdOutcomes : HerdInstalledReturn(out)
    \/ \E out \in HerdOutcomes : HerdVersionReturn(out)
    \/ \E fsOut \in [Range(testDirs) -> FsOutcomes] : CheckPermissions(fsOut)
    \/ \E content \in ConfigContents : CheckConfig(content)
    \/ \E shell \in Shells : ReturnReport(shell)

DoctorSpec == DoctorInit /\ [][DoctorNext]_vars

-----------------------------------------------------------------------------
(* Diagnostic runs repeated on an unchanged machine *)

\* the machines a run is repeated on: what each command prints or whether it
\* fails, the candidates a MySQL server answers on, what writeFileSync and
\* unlinkSync do in each directory, the config file, $SHELL
Systems ==
    [wpCli : {Rejected, Printed(VersionLine("WP-CLI", << 2, 9, 0 >>))},
     phpVersion : {Rejected,
                   Printed(VersionLine("PHP", << 7, 3, 0 >>)),
                   Printed(VersionLine("PHP", << 8, 2, 15 >>))},
     phpModules : {Printed({"Core", "mysqli", "curl", "json", "mbstring"}),
                   Printed({"Core", "MySQLi", "JSON"})},
     mysqlVersion : MySQLVersionOutcomes,
     mysql : {{}, {"-hlocalhost"}},
     herd : HerdOutcomes,
     fs : [{Cwd, SitesDir} -> {"ok", "unlinkThrows"}],
     config : {JsonObject({"dbUser", "defaultPlugins"}), JsonNull},
     shell : {"/bin/zsh"}]

\* the server of the machine answers the pending probe of detection d
Answers(d) ==
    /\ Len(d.log) > 0
    /\ d.log[Len(d.log)].args[1] \in system.mysql

\* a report a finished run returned, as its caller keeps it: listed, the
\* issues it listed when it was returned; live, its issues property is
\* this.issues of the DoctorCheck in use
Kept(D) == [report |-> D.report, listed |-> ReportIssues(D), live |-> TRUE]

\* the issues property of a kept report, read now: the array this.issues of
\* its DoctorCheck, which is the one in use while the report is live
KeptIssues(r) == IF r.live THEN doctor.issues ELSE r.listed

\* runAllChecks() is called on the DoctorCheck whose run has returned: the
\* results object is new, this.issues is the array the constructor made
RunAllChecksAgain ==
    /\ doctor.pc = "done"
    /\ Len(returned) + 1 < MaxRuns
    /\ returned' = Append(returned, Kept(doctor))
    /\ doctor' = [NewDoctor EXCEPT !.issues = doctor.issues, !.pc = "checkWpCli"]
    /\ UNCHANGED <<files, connectionCache, calls, system, cliVars, updaterVars>>

\* new DoctorCheck() after a run has returned, as each doctor command does
NewDoctorCheck ==
    /\ doctor.pc = "done"
    /\ Len(returned) + 1 < MaxRuns
    /\ returned' = [k \in 1..Len(returned) |-> [returned[k] EXCEPT !.live = FALSE]]
                       \o << [Kept(doctor) EXCEPT !.live = FALSE] >>
    /\ doctor' = NewDoctor
    /\ UNCHANGED <<files, connectionCache, calls, system, cliVars, updaterVars>>

RerunInit ==
    /\ files \in SUBSET {WP_CLI_PATH, SitesDir, CONFIG_FILE}
    /\ connectionCache = [u \in Users |-> Undefined]
    /\ calls = [c \in CallIds |-> IdleCall]
    /\ doctor = NewDoctor
    /\ system \in Systems
    /\ returned = << >>
    /\ NoCli
    /\ NoUpdater

RerunNext ==
    \/ RunAllChecks
    \/ RunAllChecksAgain
    \/ NewDoctorCheck
    \/ CheckWpCli
    \/ WpCliVersionReturn(system.wpCli)
    \/ CheckPhp
    \/ PhpVersionReturn(system.phpVersion)
    \/ PhpModulesReturn(system.phpModules)
    \/ CheckMySQL
    \/ MySQLVersionReturn(system.mysqlVersion)
    \/ MySQLDetectVersionReturn(system.mysqlVersion.ok)
    \/ MySQLDetectProbeReturn(Answers(doctor.det))
    \/ CheckHerd
    \/ HerdInstalledReturn(system.herd)
    \/ HerdVersionReturn(system.herd)
    \/ CheckPermissions([dir \in Range(testDirs) |-> system.fs[dir]])
    \/ CheckConfig(system.config)
    \/ ReturnReport(system.shell)

RerunSpec == RerunInit /\ [][RerunNext]_vars

-----------------------------------------------------------------------------
(* bin/index.js: the doctor command *)

\* wpmax doctor: new DoctorCheck(), then the checks one after the other, each
\* awaited and its status line printed, in the order of runAllChecks
DoctorCommand ==
    /\ cli.pc = "idle"
    /\ doctor.pc = "idle"
    /\ cli' = [cli EXCEPT !.command = "doctor", !.pc = "running"]
    /\ doctor' = [NewDoctor EXCEPT !.pc = "checkWpCli"]
    /\ UNCHANGED <<files, connectionCache, calls, system, returned,
                   registry, databases, updaterVars>>

\* after checkConfig: the environment and the summary of doctor.issues are
\* printed and the action returns; nothing sets an exit code, so the process
\* ends with code 0
DoctorCommandSummary ==
    /\ cli.command = "doctor"
    /\ cli.pc = "running"
    /\ doctor.pc = "collect"
    /\ doctor' = [doctor EXCEPT !.pc = "printed"]
    /\ cli' = [cli EXCEPT !.pc = "exited", !.exitCode = 0]
    /\ UNCHANGED <<files, connectionCache, calls, system, returned,
                   registry, databases, updaterVars>>

DoctorCommandNext ==
    \/ DoctorCommand
    \/ CheckWpCli
    \/ \E out \in WpCliOutcomes : WpCliVersionReturn(out)
    \/ CheckPhp
    \/ \E out \in PhpVersionOutcomes : PhpVersionReturn(out)
    \/ \E out \in PhpModuleOutcomes : PhpModulesReturn(out)
    \/ CheckMySQL
    \/ \E out \in MySQLVersionOutcomes : MySQLVersionReturn(out)
    \/ \E ok \in BOOLEAN : MySQLDetectVersionReturn(ok)
    \/ \E ok \in BOOLEAN : MySQLDetectProbeReturn(ok)
    \/ CheckHerd
    \/ \E out \in HerdOutcomes : HerdInstalledReturn(out)
    \/ \E out \in HerdOutcomes : HerdVersionReturn(out)
    \/ \E fsOut \in [Range(testDirs) -> FsOutcomes] : CheckPermissions(fsOut)
    \/ \E content \in ConfigContents : CheckConfig(content)
    \/ DoctorCommandSummary

DoctorCommandSpec == DoctorInit /\ [][DoctorCommandNext]_vars

-----------------------------------------------------------------------------
(* checkPhp called on its own, php --version printing any release *)

\* what php --version may print: releases before, at and after 7.4, with
\* one- and two-digit minor numbers and several patch numbers
PhpReleases ==
    PhpVersionOutcomes \cup
    { Printed(VersionLine("PHP", << major, minor, patch >>)) :
        major \in {5, 7, 8}, minor \in {0, 3, 4, 10}, patch \in {0, 33} }

\* doctor.checkPhp() on a new DoctorCheck
CallCheckPhp == DoctorStep("idle", checkPhp(doctor))

PhpNext ==
    \/ CallCheckPhp
    \/ \E out \in PhpReleases : PhpVersionReturn(out)
    \/ \E out \in PhpModuleOutcomes : PhpModulesReturn(out)

PhpSpec == DoctorInit /\ [][PhpNext]_vars

-----------------------------------------------------------------------------
(* checkMySQL called on its own, repeatedly, in a process that also calls  *)
(* getMySQLConnection                                                      *)

\* doctor.checkMySQL() on a DoctorCheck no check of which is running
CallCheckMySQL ==
    /\ doctor.pc \in {"idle", "checkHerd"}
    /\ Len(doctor.log) < MaxRuns
    /\ doctor' = checkMySQL(doctor)
    /\ UNCHANGED <<files, connectionCache, calls, system, returned, cliVars,
                   updaterVars>>

\* a machine with or without the socket /tmp/mysql.sock
MySQLCheckInit ==
    /\ files \in SUBSET {"/tmp/mysql.sock"}
    /\ connectionCache = [u \in Users |-> Undefined]
    /\ calls = [c \in CallIds |-> IdleCall]
    /\ doctor = NewDoctor
    /\ system = Undefined
    /\ returned = << >>
    /\ NoCli
    /\ NoUpdater

MySQLCheckNext ==
    \/ \E u \in Users \cup {Undefined} : GetMySQLConnection(1, u)
    \/ \E ok \in BOOLEAN : VersionReturn(1, ok)
    \/ \E ok \in BOOLEAN : ProbeReturn(1, ok)
    \/ CallCheckMySQL
    \/ \E out \in MySQLVersionOutcomes : MySQLVersionReturn(out)
    \/ \E ok \in BOOLEAN : MySQLDetectVersionReturn(ok)
    \/ \E ok \in BOOLEAN : MySQLDetectProbeReturn(ok)

MySQLCheckSpec == MySQLCheckInit /\ [][MySQLCheckNext]_vars

-----------------------------------------------------------------------------
(* src/site-registry.js *)

SiteNames == {"blog", "shop", "docs"}

\* new Date().toISOString() at the time clock
toISOString(t) == "1970-01-01T00:00:00.00" \o ToString(t) \o "Z"

\* the siteData objects addSite is called with
SiteData ==
    [name : SiteNames,
     path : {"/home/user/Sites", "/srv/www"},
     dbName : {"wp", Undefined},
     created_at : {Undefined, "2024-05-01T10:00:00.000Z"}]

\* listAllSites(): the sites, or [] when the file cannot be parsed
listAllSites(content) == IF content.readable THEN content.sites ELSE << >>

\* sites.find(site => site.name === siteName)
\* what Array.prototype.find returns when no entry matches: undefined, as a
\* value that can be compared with an entry
NotFound == [undefined |-> TRUE]

getSite(content, siteName) ==
    LET sites == listAllSites(content)
        found == { k \in 1..Len(sites) : sites[k].name = siteName }
    IN  IF found = {} THEN NotFound
        ELSE sites[CHOOSE k \in found : \A j \in found : k <= j]

siteExists(content, siteName) == getSite(content, siteName) # NotFound

\* the entry addSite builds from siteData
Entry(siteData) ==
    [name |-> siteData.name,
     path |-> siteData.path,
     dbName |-> siteData.dbName,
     created_at |-> IF Truthy(siteData.created_at) THEN siteData.created_at
                    ELSE toISOString(clock)]

\* variant: the new entry is put first (unshift)
addSiteFirst(content, siteData) ==
    Written(<< Entry(siteData) >>
            \o SelectSeq(listAllSites(content), LAMBDA site : site.name # siteData.name))

\* variant: entries with the same name are kept
addSiteKeeping(content, siteData) ==
    Written(Append(listAllSites(content), Entry(siteData)))

\* addSite(siteData): what is written to sites.json
addSite(content, siteData) ==
    Written(Append(SelectSeq(listAllSites(content),
                             LAMBDA site : site.name # siteData.name),
                   Entry(siteData)))

\* removeSite(siteName): what is written to sites.json
removeSite(content, siteName) ==
    Written(SelectSeq(listAllSites(content), LAMBDA site : site.name # siteName))

AddSite(siteData) ==
    /\ registry' = addSite(registry, siteData)
    /\ UNCHANGED <<files, connectionCache, calls, doctor, system, returned,
                   databases, cli, updaterVars>>

RemoveSite(siteName) ==
    /\ registry' = removeSite(registry, siteName)
    /\ UNCHANGED <<files, connectionCache, calls, doctor, system, returned,
                   databases, cli, updaterVars>>

\* a process that uses the registry: sites.json is missing or empty, or was
\* damaged by hand
RegistryInit ==
    /\ files = {}
    /\ connectionCache = [u \in Users |-> Undefined]
    /\ calls = [c \in CallIds |-> IdleCall]
    /\ doctor = NewDoctor
    /\ system = Undefined
    /\ returned = << >>
    /\ registry \in {Written(<< >>), Unreadable}
    /\ databases = {}
    /\ cli = IdleCli
    /\ clock \in {0, 1}
    /\ lastUpdateCheck = NoLastCheck
    /\ autoCheck = NotAsked

RegistryNext ==
    \/ \E siteData \in SiteData : AddSite(siteData)
    \/ \E siteName \in SiteNames : RemoveSite(siteName)

RegistrySpec == RegistryInit /\ [][RegistryNext]_vars

-----------------------------------------------------------------------------
(* bin/index.js: the delete command.  The action awaits the prompts, the   *)
(* size of the directory, rm -rf and wp db drop; each await is a step.     *)

\* the sites the command is run against, as create registered them
DeleteSites ==
    { [name |-> "blog", path |-> "/home/user/Sites/blog", dbName |-> "wp_blog",
       created_at |-> "2024-05-01T10:00:00.000Z"],
      [name |-> "shop", path |-> "/home/user/Sites/shop", dbName |-> "wp_shop",
       created_at |-> "2024-05-01T10:00:00.000Z"] }

\* [name] as given on the command line: a registered site, an unknown one
\* or none
DeleteNames == SiteNames \cup {Undefined}

\* --yes, --keep-db, --keep-files, --dry-run
DeleteOptions ==
    [yes : BOOLEAN, keepDb : BOOLEAN, keepFiles : BOOLEAN, dryRun : BOOLEAN]

\* the locals of the action when it starts
DeleteCli(name, options) ==
    [command |-> "delete", pc |-> "start", exitCode |-> Undefined,
     siteName |-> name, options |-> options, site |-> NotFound,
     dirExists |-> FALSE, deleted |-> FALSE]

\* the process ends: a return from the action ends it with 0, process.exit(1)
\* with 1
Exit(c, code) == [c EXCEPT !.pc = "exited", !.exitCode = code]

\* removeSite(siteName) and the message "deleted successfully"
deleteRegistry(c) == Exit([c EXCEPT !.deleted = TRUE], 0)

\* if (!options.keepDb && dirExists): wp db drop is started in site.path
deleteDatabase(c) ==
    IF ~c.options.keepDb /\ c.dirExists THEN [c EXCEPT !.pc = "dbDrop"]
    ELSE deleteRegistry(c)

\* if (dirExists && !options.keepFiles): rm -rf site.path is started
deleteDirectory(c) ==
    IF c.dirExists /\ ~c.options.keepFiles THEN [c EXCEPT !.pc = "rm"]
    ELSE deleteDatabase(c)

\* the dry run and the confirmation
deleteConfirm(c) ==
    IF c.options.dryRun THEN Exit(c, 0)
    ELSE IF ~c.options.yes THEN [c EXCEPT !.pc = "confirm"]
    ELSE deleteDirectory(c)

\* getSite(siteName), fs.existsSync(site.path) and the start of
\* getBasicSiteInfo, which is awaited only when the directory exists
deleteLookup(c, siteName) ==
    LET site == getSite(registry, siteName) IN
    IF site = NotFound THEN Exit([c EXCEPT !.siteName = siteName], 0)
    ELSE LET d == [c EXCEPT !.siteName = siteName, !.site = site,
                            !.dirExists = existsSync(site.path)]
         IN  IF d.dirExists THEN [d EXCEPT !.pc = "info"] ELSE deleteConfirm(d)

\* the action goes on to next; reaching the end of the try block has removed
\* the site from the registry
DeleteStep(next) ==
    /\ cli' = next
    /\ registry' = IF next.deleted THEN removeSite(registry, next.siteName)
                   ELSE registry

\* wpmax delete [name] [options]
DeleteCommand(name, options) ==
    /\ cli.pc = "idle"
    /\ LET c == DeleteCli(name, options) IN
       IF Truthy(name) THEN DeleteStep(deleteLookup(c, name))
       ELSE IF Len(listAllSites(registry)) = 0 THEN DeleteStep(Exit(c, 0))
       ELSE DeleteStep([c EXCEPT !.pc = "select"])
    /\ UNCHANGED <<files, connectionCache, calls, doctor, system, returned,
                   databases, updaterVars>>

\* the list prompt answers with one of the registered sites
DeleteSelectReturn(choice) ==
    /\ cli.command = "delete"
    /\ cli.pc = "select"
    /\ siteExists(registry, choice)
    /\ DeleteStep(deleteLookup(cli, choice))
    /\ UNCHANGED <<files, connectionCache, calls, doctor, system, returned,
                   databases, updaterVars>>

\* getBasicSiteInfo settles; getDirectorySize catches every failure of du
DeleteInfoReturn ==
    /\ cli.command = "delete"
    /\ cli.pc = "info"
    /\ DeleteStep(deleteConfirm(cli))
    /\ UNCHANGED <<files, connectionCache, calls, doctor, system, returned,
                   databases, updaterVars>>

\* the answer to "Are you sure?"
DeleteConfirmReturn(confirm) ==
    /\ cli.command = "delete"
    /\ cli.pc = "confirm"
    /\ DeleteStep(IF confirm THEN deleteDirectory(cli) ELSE Exit(cli, 0))
    /\ UNCHANGED <<files, connectionCache, calls, doctor, system, returned,
                   databases, updaterVars>>

\* rm -rf site.path settles: the directory is gone, or the outer catch ends
\* the process with 1
DeleteRmReturn(ok) ==
    /\ cli.command = "delete"
    /\ cli.pc = "rm"
    /\ IF ok
       THEN /\ files' = files \ {cli.site.path}
            /\ DeleteStep(deleteDatabase(cli))
       ELSE /\ files' = files
            /\ DeleteStep(Exit(cli, 1))
    /\ UNCHANGED <<connectionCache, calls, doctor, system, returned,
                   databases, updaterVars>>

\* wp db drop --yes --quiet, spawned with cwd: site.path, settles.  execa
\* rejects when the working directory does not exist; the inner catch turns
\* every rejection into a warning.
DeleteDbDropReturn(ok) ==
    /\ cli.command = "delete"
    /\ cli.pc = "dbDrop"
    /\ ok => existsSync(cli.site.path)
    /\ databases' = IF ok THEN databases \ {cli.site.dbName} ELSE databases
    /\ DeleteStep(deleteRegistry(cli))
    /\ UNCHANGED <<files, connectionCache, calls, doctor, system, returned,
                   updaterVars>>

\* the registered sites in any order, each with or without its directory and
\* its database
DeleteInit ==
    /\ \E a, b \in DeleteSites :
          registry \in { Written(<< >>), Written(<<a>>) } \cup
                       (IF a # b THEN { Written(<<a, b>>) } ELSE {})
    /\ files \in SUBSET { site.path : site \in DeleteSites }
    /\ databases \in SUBSET { site.dbName : site \in DeleteSites }
    /\ cli = IdleCli
    /\ connectionCache = [u \in Users |-> Undefined]
    /\ calls = [c \in CallIds |-> IdleCall]
    /\ doctor = NewDoctor
    /\ system = Undefined
    /\ returned = << >>
    /\ NoUpdater

DeleteNext ==
    \/ \E name \in DeleteNames, options \in DeleteOptions :
          DeleteCommand(name, options)
    \/ \E choice \in SiteNames : DeleteSelectReturn(choice)
    \/ DeleteInfoReturn
    \/ \E confirm \in BOOLEAN : DeleteConfirmReturn(confirm)
    \/ \E ok \in BOOLEAN : DeleteRmReturn(ok)
    \/ \E ok \in BOOLEAN : DeleteDbDropReturn(ok)

DeleteSpec == DeleteInit /\ [][DeleteNext]_vars

-----------------------------------------------------------------------------
(* src/updater.js: the daily check for updates.  Date.now() is the clock;  *)
(* times are milliseconds counted from an arbitrary origin.                *)

MaxDays == 2

\* the instants at which the clock is read: around each midnight, one
\* millisecond apart
Instants ==
    { k * (24 * 60 * 60 * 1000) + j - 1 : k \in 1..(MaxDays + 1), j \in 0..2 }

\* shouldAutoCheck(), with the value of config.lastUpdateCheck and of
\* Date.now(); !lastCheck holds for undefined and for 0
shouldAutoCheck(config, now) ==
    LET lastCheck == config IN
    IF ~lastCheck.recorded \/ lastCheck.ms = 0 THEN TRUE
    ELSE LET oneDayInMs == 24 * 60 * 60 * 1000
             timeSinceLastCheck == now - lastCheck.ms
         IN  timeSinceLastCheck > oneDayInMs

ShouldAutoCheck ==
    /\ autoCheck' = Answered(shouldAutoCheck(lastUpdateCheck, clock))
    /\ UNCHANGED <<files, connectionCache, calls, doctor, system, returned,
                   cliVars, clock, lastUpdateCheck>>

\* updateLastCheckTime(): setConfig('lastUpdateCheck', Date.now())
UpdateLastCheckTime ==
    /\ lastUpdateCheck' = LastCheck(clock)
    /\ UNCHANGED <<files, connectionCache, calls, doctor, system, returned,
                   cliVars, clock, autoCheck>>

\* time passes
Tick(t) ==
    /\ t > clock
    /\ clock' = t
    /\ UNCHANGED <<files, connectionCache, calls, doctor, system, returned,
                   cliVars, lastUpdateCheck, autoCheck>>

\* a configuration without lastUpdateCheck, at some instant
UpdaterInit ==
    /\ clock \in Instants
    /\ lastUpdateCheck = NoLastCheck
    /\ autoCheck = NotAsked
    /\ files = {}
    /\ connectionCache = [u \in Users |-> Undefined]
    /\ calls = [c \in CallIds |-> IdleCall]
    /\ doctor = NewDoctor
    /\ system = Undefined
    /\ returned = << >>
    /\ NoCli

UpdaterNext ==
    \/ ShouldAutoCheck
    \/ UpdateLastCheckTime
    \/ \E t \in Instants : Tick(t)

UpdaterSpec == UpdaterInit /\ [][UpdaterNext]_vars

-----------------------------------------------------------------------------
(* Properties of the connection prober *)

\* the first argument of each candidate's probe, in the documented order, and
\* the connection string each candidate stands for
CandidateTargets ==
    << "-h127.0.0.1", "-hlocalhost",
       "--socket=/tmp/mysql_3306.sock",
       "--socket=/tmp/mysql.sock",
       "--socket=/var/run/mysqld/mysqld.sock",
       "--socket=/Applications/MAMP/tmp/mysql/mysql.sock",
       "--socket=/opt/homebrew/var/mysql/mysql.sock",
       "--socket=/usr/local/var/mysql/mysql.sock" >>

CandidateResults ==
    << "127.0.0.1", "localhost",
       "localhost:/tmp/mysql_3306.sock",
       "localhost:/tmp/mysql.sock",
       "localhost:/var/run/mysqld/mysqld.sock",
       "localhost:/Applications/MAMP/tmp/mysql/mysql.sock",
       "localhost:/opt/homebrew/var/mysql/mysql.sock",
       "localhost:/usr/local/var/mysql/mysql.sock" >>

CandidatePaths ==
    << "127.0.0.1", "localhost",
       "/tmp/mysql_3306.sock",
       "/tmp/mysql.sock",
       "/var/run/mysqld/mysqld.sock",
       "/Applications/MAMP/tmp/mysql/mysql.sock",
       "/opt/homebrew/var/mysql/mysql.sock",
       "/usr/local/var/mysql/mysql.sock" >>

Candidates == 1..8
TcpCandidates == {1, 2}
SocketCandidates == Candidates \ TcpCandidates

IsVersion(e) == e.args = << "--version" >>
IsProbe(e) == ~IsVersion(e)

TargetRank ==
    [t \in Range(CandidateTargets) |->
        CHOOSE k \in Candidates : CandidateTargets[k] = t]

\* the candidate a command addresses (0: none of the candidates)
CandidateOf(e) ==
    IF e.args[1] \in DOMAIN TargetRank THEN TargetRank[e.args[1]] ELSE 0

\* the candidates addressed by the commands of a log, position by position
Addressed(log) == [p \in 1..Len(log) |-> CandidateOf(log[p])]

\* the candidates a log has a probe for, and those with a failed probe
ProbedIn(log) == { CandidateOf(log[p]) : p \in 1..Len(log) } \ {0}

FailedProbes(log) ==
    { CandidateOf(log[p]) : p \in { q \in 1..Len(log) : log[q].status = "failed" } } \ {0}

\* C1: within one detection the probes are issued in the order 127.0.0.1,
\* localhost, then the socket paths in list order, and a socket is probed only
\* after both TCP probes were issued and failed in that detection.
C1_ProbeOrder ==
    \A c \in CallIds :
        LET log == calls[c].d.log
            cand == Addressed(log)
        IN
        /\ \A p \in 1..Len(log) : IsProbe(log[p]) => cand[p] \in Candidates
        /\ \A p, q \in 1..Len(log) :
              (p < q /\ IsProbe(log[p]) /\ IsProbe(log[q])) => cand[p] < cand[q]
        /\ \A q \in 1..Len(log) :
              cand[q] \in SocketCandidates
                  => \A t \in TcpCandidates :
                        \E p \in 1..(q - 1) :
                            cand[p] = t /\ log[p].status = "failed"

C1_Witness ==
    \E c \in CallIds :
        Cardinality(ProbedIn(calls[c].d.log) \cap SocketCandidates) >= 2

\* C2: a detection that returns, returns the connection string of the
\* candidate whose probe succeeded: every candidate before it in the order was
\* probed and failed, or is a socket path that does not exist.  With 127.0.0.1
\* failing and localhost succeeding the result is "localhost", whatever
\* sockets exist.
C2_FirstSuccessReturned ==
    \A c \in CallIds :
        LET d == calls[c].d
            last == d.log[Len(d.log)]
            k == CandidateOf(last)
            failed == FailedProbes(d.log)
            probed == ProbedIn(d.log)
        IN  d.pc = "returned" =>
                /\ d.log[1].status = "ok"
                /\ IsProbe(last) /\ last.status = "ok"
                /\ k \in Candidates
                /\ d.value = CandidateResults[k]
                /\ \A j \in 1..(k - 1) :
                      \/ j \in failed
                      \/ j \in SocketCandidates /\ j \notin probed
                                               /\ CandidatePaths[j] \notin files
                /\ (1 \in failed /\ k = 2) => d.value = "localhost"

C2_Witness ==
    \E c \in CallIds :
        /\ calls[c].d.pc = "returned"
        /\ 1 \in FailedProbes(calls[c].d.log)
        /\ calls[c].d.value = "localhost"
        /\ "/tmp/mysql.sock" \in files

\* C3: a successful probe is the last external command of its detection, and
\* no candidate is probed twice in one detection.
C3_StopAtFirstSuccess ==
    \A c \in CallIds :
        LET log == calls[c].d.log
            cand == Addressed(log)
        IN
        /\ \A p \in 1..Len(log) :
              (IsProbe(log[p]) /\ log[p].status = "ok") => p = Len(log)
        /\ \A p, q \in 1..Len(log) :
              (p # q /\ IsProbe(log[p]) /\ IsProbe(log[q])) => cand[p] # cand[q]
        /\ calls[c].d.pc \in {"returned", "threw"}
              => \A p \in 1..Len(log) : log[p].status # "pending"

C3_Witness ==
    \E c \in CallIds :
        LET log == calls[c].d.log IN
        /\ Len(log) = 3
        /\ log[3].status = "ok"
        /\ calls[c].pc = "done"
        /\ files # {}

\* C4: no probe is issued for a socket path that does not exist, and a
\* detection that gives up has probed every socket path that does exist.
C4_ExistingSocketsOnly ==
    \A c \in CallIds :
        LET probed == ProbedIn(calls[c].d.log) IN
        /\ \A k \in SocketCandidates :
              k \in probed => CandidatePaths[k] \in files
        /\ (calls[c].d.pc = "threw" /\ calls[c].d.log[1].status = "ok")
              => \A k \in SocketCandidates :
                    CandidatePaths[k] \in files => k \in probed

C4_Witness ==
    \E c \in CallIds :
        /\ "/tmp/mysql_3306.sock" \notin files
        /\ "/tmp/mysql.sock" \notin files
        /\ 5 \in ProbedIn(calls[c].d.log)

\* C5: when mysql --version fails the detection throws the client-not-installed
\* error and has issued no probe.
C5_ClientNotInstalled ==
    \A c \in CallIds :
        LET d == calls[c].d IN
        (Len(d.log) >= 1 /\ d.log[1].status = "failed") =>
            /\ d.pc = "threw"
            /\ d.error =
                 << "MySQL client is not installed or not in PATH. Please install MySQL." >>
            /\ Len(d.log) = 1 /\ IsVersion(d.log[1])
            /\ calls[c].pc = "failed"
            /\ calls[c].error = d.error

C5_Witness ==
    \E c \in CallIds :
        /\ calls[c].pc = "failed"
        /\ calls[c].d.log[1].status = "failed"

\* text s is quoted by one of the lines of an error message
ContainsText(message, s) ==
    \E k \in 1..Len(message) : message[k] = s \/ message[k] = "  - " \o s

\* every candidate of call c was probed and failed, or is a socket path that
\* does not exist
Exhausted(c) ==
    /\ Len(calls[c].d.log) >= 1
    /\ calls[c].d.log[1].status = "ok"
    /\ LET failed == FailedProbes(calls[c].d.log) IN
       \A k \in Candidates :
          \/ k \in failed
          \/ k \in SocketCandidates /\ CandidatePaths[k] \notin files

\* C6: when the client is invocable and every candidate failed or was skipped,
\* the detection throws the no-connection error, whose message names every TCP
\* option and every socket path, and no result is returned or cached.
C6_NoConnectionFound ==
    \A c \in CallIds :
        Exhausted(c) =>
            /\ calls[c].d.pc = "threw"
            /\ calls[c].pc = "failed"
            /\ calls[c].error[1] =
                  "Could not detect MySQL connection. Please ensure MySQL is running."
            /\ \A k \in Candidates : ContainsText(calls[c].error, CandidatePaths[k])
            /\ calls[c].d.value = Undefined
            /\ calls[c].result = Undefined

C6_Witness ==
    \E c \in CallIds :
        /\ Exhausted(c)
        /\ Cardinality(ProbedIn(calls[c].d.log) \cap SocketCandidates) = 2

\* C7: a getMySQLConnection(u) call made after a getMySQLConnection(u) call
\* has succeeded issues no external command and returns a connection string
\* that a detection for u has stored.
C7_CachedCallRunsNothing ==
    \A c \in CallIds :
        calls[c].afterSuccess =>
            /\ calls[c].pc = "done"
            /\ calls[c].d.log = << >>
            /\ Truthy(calls[c].result)
            /\ \E k \in CallIds \ {c} :
                  /\ calls[k].user = calls[c].user
                  /\ calls[k].d.pc = "returned"
                  /\ calls[k].d.value = calls[c].result

C7_Witness ==
    \E c \in CallIds :
        /\ calls[c].afterSuccess
        /\ calls[c].pc = "done"
        /\ calls[c].result = "localhost:/tmp/mysql.sock"

C9_OneResultPerIdentity ==
    [][\A u \in Users :
          Truthy(connectionCache[u]) =>
              /\ connectionCache'[u] = connectionCache[u]
              /\ \A c \in CallIds :
                    calls[c].user = u
                        => Len(calls'[c].d.log) = Len(calls[c].d.log)]_vars


-----------------------------------------------------------------------------
(* Properties of the diagnostics *)

CheckNames == {"wpCli", "php", "mysql", "herd", "permissions", "config"}

\* every external command of the diagnostic run failed
EveryCommandFailed ==
    \A p \in 1..Len(doctor.log) : doctor.log[p].status = "failed"

C28_FailureNotCached ==
    [][\A c \in CallIds :
          /\ (calls[c].pc = "detecting" /\ calls'[c].pc = "failed") =>
                /\ calls'[c].d.pc = "threw"
                /\ calls'[c].error = calls'[c].d.error
                /\ calls'[c].error # << >>
                /\ connectionCache' = connectionCache
          /\ (calls[c].pc = "idle" /\ calls'[c].pc # "idle") =>
                /\ calls'[c].pc # "failed"
                /\ ~Truthy(connectionCache[calls'[c].user]) =>
                      /\ calls'[c].pc = "detecting"
                      /\ calls'[c].d = DetectStart
                /\ connectionCache' = connectionCache]_vars

\* the first call for root failed, the cache had no entry when the second
\* call for root started, and the second call ran a detection that found a
\* connection
C28_Witness ==
    /\ calls[1].pc = "failed"
    /\ calls[1].user = "root"
    /\ calls[2].pc = "done"
    /\ calls[2].user = "root"
    /\ calls[2].cachedAtStart = {}
    /\ calls[2].d.pc = "returned"
    /\ connectionCache["root"] = calls[2].d.value

-----------------------------------------------------------------------------
(* Properties of the single checks *)

\* the issues a step appends to this.issues
Appended == SubSeq(doctor'.issues, Len(doctor.issues) + 1, Len(doctor'.issues))

\* the descriptions of a list of issues, in order
Descriptions(issues) == [k \in 1..Len(issues) |-> issues[k].description]

\* a step in which the check called name returns its result
Returns(name) == name \notin DOMAIN doctor.results /\ name \in DOMAIN doctor'.results

\* a step taken while the checks named by pcs run
Within(pcs) == doctor.pc \in pcs /\ doctor' # doctor

\* a mysql --version of D failed: the one of checkMySQL or the one of the
\* detection checkMySQL started
MySQLClientFailed(D) ==
    \/ \E p \in 1..Len(D.log) :
          D.log[p].cmd = "mysql" /\ IsVersion(D.log[p]) /\ D.log[p].status = "failed"
    \/ \E p \in 1..Len(D.det.log) :
          IsVersion(D.det.log[p]) /\ D.det.log[p].status = "failed"

\* the detection of D invoked the client and every candidate it probed failed
NoTransport(D) ==
    /\ D.det.pc = "threw"
    /\ D.det.error = NoConnectionMessage
    /\ \A p \in 1..Len(D.det.log) :
          IF IsVersion(D.det.log[p]) THEN D.det.log[p].status = "ok"
          ELSE D.det.log[p].status = "failed"

\* C11: when checkMySQL returns, a mysql client that could not be invoked
\* gives error 'MySQL client not installed' with the one issue 'MySQL client
\* not found'; error 'Not accessible' with the one issue 'MySQL not
\* accessible' is given only when every mysql --version succeeded and no
\* candidate could be negotiated; a success appends nothing, and no step of
\* checkMySQL before its return appends an issue.
C11_ClientMissingDistinct ==
    [][/\ Returns("mysql") =>
            LET r == doctor'.results["mysql"] IN
            /\ MySQLClientFailed(doctor') =>
                  /\ r = [ok |-> FALSE, error |-> "MySQL client not installed"]
                  /\ Descriptions(Appended) = << "MySQL client not found" >>
            /\ (~r.ok /\ r.error = "Not accessible") =>
                  /\ ~MySQLClientFailed(doctor')
                  /\ NoTransport(doctor')
                  /\ Descriptions(Appended) = << "MySQL not accessible" >>
            /\ ~r.ok => Len(Appended) = 1
            /\ r.ok => Appended = << >>
       /\ (Within({"checkMySQL", "mysql.version", "mysql.detect"}) /\ ~Returns("mysql"))
              => doctor'.issues = doctor.issues]_vars

\* the command checkWpCli invokes
WpCliCmd(e) == e.cmd = "php" /\ e.args = << WP_CLI_PATH, "--version" >>

\* C12: when checkWpCli returns: with the WP-CLI file missing it returns
\* {ok: false, error: 'Not found'} in the step it was called in, having
\* appended the one issue 'WP-CLI not found' and invoked no command; with the
\* file present and its invocation failed it returns {ok: false, error: 'Not
\* accessible'} and appends the one issue 'WP-CLI not accessible'; with the
\* invocation succeeding it returns ok: true and appends nothing; no step of
\* checkWpCli before its return appends an issue.
C12_WpCliFailureModes ==
    [][/\ Returns("wpCli") =>
            LET r == doctor'.results["wpCli"]
                log == doctor'.log
            IN
            IF ~existsSync(WP_CLI_PATH)
            THEN /\ r = [ok |-> FALSE, error |-> "Not found"]
                 /\ Descriptions(Appended) = << "WP-CLI not found" >>
                 /\ doctor.pc = "checkWpCli"
                 /\ log = doctor.log
                 /\ \A p \in 1..Len(log) : ~WpCliCmd(log[p])
            ELSE /\ Len(log) > 0 /\ WpCliCmd(log[Len(log)])
                 /\ log[Len(log)].status = "failed" =>
                       /\ r = [ok |-> FALSE, error |-> "Not accessible"]
                       /\ Descriptions(Appended) = << "WP-CLI not accessible" >>
                 /\ log[Len(log)].status = "ok" =>
                       /\ r.ok
                       /\ Appended = << >>
                 /\ log[Len(log)].status \in {"ok", "failed"}
       /\ (Within({"checkWpCli", "wpCli.version"}) /\ ~Returns("wpCli"))
              => doctor'.issues = doctor.issues]_vars

\* the WP-CLI file exists, its invocation failed and checkWpCli has returned
C12_Witness ==
    /\ "wpCli" \in DOMAIN doctor.results
    /\ existsSync(WP_CLI_PATH)
    /\ \E p \in 1..Len(doctor.log) :
          WpCliCmd(doctor.log[p]) /\ doctor.log[p].status = "failed"
    /\ doctor.results["wpCli"] = [ok |-> FALSE, error |-> "Not accessible"]
    /\ Descriptions(doctor.issues) = << "WP-CLI not accessible" >>

\* the commands checkPhp invokes
PhpCmd(e) == e.cmd = "php" /\ e.args \in { << "--version" >>, << "-m" >> }

\* the version php --version printed is below the 7.4 minimum
BelowMinimum(triple) == Len(triple) = 3 /\ triple[1] * 100 + triple[2] < 704

\* the description of the issue for an outdated version
OutdatedDescription(triple) ==
    "PHP " \o VersionText(triple) \o " is outdated (minimum: 7.4)"

\* the positions of the issues with a description from a set
IssuesAbout(issues, descriptions) ==
    { k \in 1..Len(issues) : issues[k].description \in descriptions }

\* C13: when php --version has printed a version below 7.4, the step that
\* reads it appends the one issue 'PHP <version> is outdated (minimum: 7.4)',
\* and checkPhp returns ok: true with that version, this.issues holding
\* exactly one issue with that description.
C13_OutdatedStillOk ==
    [][/\ (doctor.pc = "php.version" /\ doctor' # doctor
              /\ BelowMinimum(doctor'.triple)) =>
            Descriptions(Appended) = << OutdatedDescription(doctor'.triple) >>
       /\ (Returns("php") /\ BelowMinimum(doctor'.triple)) =>
            LET r == doctor'.results["php"] IN
            /\ r.ok
            /\ r.version = VersionText(doctor'.triple)
            /\ Cardinality(IssuesAbout(doctor'.issues,
                    { OutdatedDescription(doctor'.triple) })) = 1]_vars

\* C14: when checkPhp returns, its result is {ok: false, error: 'Not
\* installed'} with the issue 'PHP not found' appended if an invocation of
\* php failed, and is ok: true if none did, whatever version and modules were
\* printed.
C14_NotInstalledOnlyIfNotInvocable ==
    [][Returns("php") =>
          LET r == doctor'.results["php"]
              failed == \E p \in 1..Len(doctor'.log) :
                            PhpCmd(doctor'.log[p]) /\ doctor'.log[p].status = "failed"
          IN
          IF failed
          THEN /\ r = [ok |-> FALSE, error |-> "Not installed"]
               /\ Descriptions(Appended) = << "PHP not found" >>
          ELSE r.ok]_vars

\* the spellings under which php -m may print a required extension
Spellings(ext) ==
    CASE ext = "mysqli" -> {"mysqli", "MySQLi"}
      [] ext = "curl" -> {"curl", "cURL"}
      [] ext = "json" -> {"json", "JSON"}
      [] OTHER -> {ext}

\* the position of a required extension in the list of required extensions
RequiredRank(ext) == CHOOSE k \in 1..Len(required) : required[k] = ext

\* C15: when php -m has printed its modules and checkPhp returns,
\* missingExtensions lists, once each and in the order of the required list,
\* exactly the required extensions (mysqli, curl, json, mbstring) that the
\* output does not name in any letter case; if the list is non-empty the step
\* appends the one issue 'Missing PHP extensions: <names joined by ", ">', and
\* if it is empty the step appends nothing.
C15_MissingExtensions ==
    [][\A out \in PhpModuleOutcomes :
          (doctor.pc = "php.modules" /\ out.ok
              /\ doctor' = checkPhpModules(doctor, out)) =>
            LET missing == doctor'.results["php"].missingExtensions IN
            /\ Range(required) = {"mysqli", "curl", "json", "mbstring"}
            /\ \A ext \in Range(required) :
                  ext \in Range(missing) <=> out.stdout \cap Spellings(ext) = {}
            /\ Range(missing) \subseteq Range(required)
            /\ \A i, j \in 1..Len(missing) :
                  i < j => RequiredRank(missing[i]) < RequiredRank(missing[j])
            /\ IF missing # << >>
               THEN Descriptions(Appended)
                        = << "Missing PHP extensions: " \o join(missing) >>
               ELSE Appended = << >>]_vars

\* php -m named mysqli and json in other letter cases and neither curl nor
\* mbstring
C15_Witness ==
    /\ "php" \in DOMAIN doctor.results
    /\ doctor.results["php"].ok
    /\ doctor.results["php"].missingExtensions = << "curl", "mbstring" >>
    /\ \E k \in 1..Len(doctor.issues) :
          doctor.issues[k].description = "Missing PHP extensions: curl, mbstring"

\* the herd commands of a log, in order
HerdCmds(log) == SelectSeq(log, LAMBDA e : e.cmd = "herd")

\* C16: no step of checkHerd appends an issue, and when checkHerd returns its
\* result has ok: true, with installed: true exactly when
\* the herd --version of isHerdInstalled and the herd --version of checkHerd
\* both succeeded, and installed: false when either failed.
C16_HerdSilent ==
    [][/\ Within({"checkHerd", "herd.installed", "herd.version"})
              => doctor'.issues = doctor.issues
       /\ Returns("herd") =>
            LET r == doctor'.results["herd"]
                h == HerdCmds(doctor'.log)
            IN
            /\ r.ok
            /\ Len(h) \in {1, 2}
            /\ \A k \in 1..Len(h) : h[k].status \in {"ok", "failed"}
            /\ r.installed <=> (Len(h) = 2 /\ h[1].status = "ok" /\ h[2].status = "ok")
            /\ ~r.installed => r = [ok |-> TRUE, installed |-> FALSE]]_vars

\* Herd was detected, its version command failed, and checkHerd has returned
\* installed: false while earlier checks had left issues
C16_Witness ==
    /\ "herd" \in DOMAIN doctor.results
    /\ doctor.results["herd"] = [ok |-> TRUE, installed |-> FALSE]
    /\ Len(HerdCmds(doctor.log)) = 2
    /\ HerdCmds(doctor.log)[1].status = "ok"
    /\ HerdCmds(doctor.log)[2].status = "failed"
    /\ doctor.pc = "checkPermissions"
    /\ Len(doctor.issues) = 3

\* the directories checkPermissions is to test on the present filesystem
Tested == {Cwd} \cup (IF SitesDir \in files THEN {SitesDir} ELSE {})

C29_MarkerLeftOnlyOnFailedDelete ==
    [][\A fsOut \in [Range(testDirs) -> FsOutcomes] :
          (doctor.pc = "checkPermissions"
              /\ doctor' = checkPermissions(doctor, fsOut).D
              /\ files' = checkPermissions(doctor, fsOut).files) =>
            LET r == doctor'.results["permissions"] IN
            /\ \A dir \in Tested :
                  /\ (testFile(dir) \in files' /\ testFile(dir) \notin files) =>
                        /\ fsOut[dir] = "unlinkThrows"
                        /\ ~r.ok
                        /\ dir \in Range(r.failedDirs)
                  /\ fsOut[dir] = "unlinkThrows" => testFile(dir) \in files'
            /\ r.ok => \A dir \in Tested : testFile(dir) \notin files'
            /\ files' \ { testFile(dir) : dir \in Tested } =
                  files \ { testFile(dir) : dir \in Tested }]_vars

\* the delete threw in the working directory and its marker is left, ~/Sites
\* passed and holds none
C29_Witness ==
    /\ "permissions" \in DOMAIN doctor.results
    /\ doctor.results["permissions"] = [ok |-> FALSE, failedDirs |-> << Cwd >>]
    /\ SitesDir \in files
    /\ testFile(Cwd) \in files
    /\ testFile(SitesDir) \notin files

\* the message of the TypeError of Object.keys(null)
ObjectKeysMessage == "Cannot convert undefined or null to object"

\* C18: in the step of checkConfig, whatever the config file holds: if the
\* config loads as an object the result has ok: true and hasSettings true
\* exactly when the object has at least one key, and nothing is appended; if
\* loading ends in an exception the result is {ok: false, error: <the
\* exception's message>} and the one issue 'Config file error' is appended.
C18_Config ==
    [][\A content \in ConfigContents :
          (doctor.pc = "checkConfig" /\ doctor' = checkConfig(doctor, content)) =>
            LET r == doctor'.results["config"]
                config == getConfig(content)
            IN
            IF config.type = "object"
            THEN /\ r.ok
                 /\ r.hasSettings <=> config.keys # {}
                 /\ r.exists <=> CONFIG_FILE \in files
                 /\ Appended = << >>
            ELSE /\ r = [ok |-> FALSE, error |-> ObjectKeysMessage]
                 /\ Descriptions(Appended) = << "Config file error" >>]_vars

\* the config file holds null, Object.keys threw and checkConfig has returned
\* the message of the exception
C18_Witness ==
    /\ "config" \in DOMAIN doctor.results
    /\ CONFIG_FILE \in files
    /\ doctor.results["config"] = [ok |-> FALSE, error |-> ObjectKeysMessage]
    /\ doctor.issues[Len(doctor.issues)].description = "Config file error"

-----------------------------------------------------------------------------
(* Properties of the issues list *)

\* the descriptions of the issues each check can append
WpCliDescriptions == {"WP-CLI not found", "WP-CLI not accessible"}

PhpDescriptions ==
    {"PHP not found"}
    \cup { OutdatedDescription(out.stdout.triple) :
              out \in { o \in PhpVersionOutcomes : o.ok /\ Len(o.stdout.triple) = 3 } }
    \cup { "Missing PHP extensions: " \o join(SelectSeq(required, LAMBDA ext : ext \in S)) :
              S \in SUBSET Range(required) }

MySQLDescriptions == {"MySQL client not found", "MySQL not accessible"}

PermissionDescriptions == { "No write permission: " \o dir : dir \in {Cwd, SitesDir} }

ConfigDescriptions == {"Config file error"}

\* the place in the order of runAllChecks of the check an issue comes from
\* (0: from no check) and of the check a step belongs to (0: to no check)
CheckRank(description) ==
    CASE description \in WpCliDescriptions -> 1
      [] description \in PhpDescriptions -> 2
      [] description \in MySQLDescriptions -> 3
      [] description \in PermissionDescriptions -> 5
      [] description \in ConfigDescriptions -> 6
      [] OTHER -> 0

RankOfPc(pc) ==
    CASE pc \in {"checkWpCli", "wpCli.version"} -> 1
      [] pc \in {"checkPhp", "php.version", "php.modules"} -> 2
      [] pc \in {"checkMySQL", "mysql.version", "mysql.detect"} -> 3
      [] pc \in {"checkHerd", "herd.installed", "herd.version"} -> 4
      [] pc = "checkPermissions" -> 5
      [] pc = "checkConfig" -> 6
      [] OTHER -> 0

\* C19: every step leaves the issues it found in this.issues where they
\* were and adds its own at the end, so nothing is removed, reordered or
\* merged; the issues a step adds come from the check in progress, and the
\* list of a run is in the order of the checks: wpCli, php, mysql, (herd),
\* permissions, config.
C19_IssuesAppendOnly ==
    [][/\ Len(doctor'.issues) >= Len(doctor.issues)
       /\ SubSeq(doctor'.issues, 1, Len(doctor.issues)) = doctor.issues
       /\ \A k \in 1..Len(Appended) :
             /\ CheckRank(Appended[k].description) # 0
             /\ CheckRank(Appended[k].description) = RankOfPc(doctor.pc)
       /\ \A i, j \in 1..Len(doctor'.issues) :
             i < j => CheckRank(doctor'.issues[i].description)
                          <= CheckRank(doctor'.issues[j].description)]_vars

\* a run has returned a report whose issues come from five checks: a less
\* severe WP-CLI issue first, a config issue last
C19_Witness ==
    /\ doctor.pc = "done"
    /\ Len(doctor.issues) >= 5
    /\ { CheckRank(doctor.issues[k].description) : k \in 1..Len(doctor.issues) }
          = {1, 2, 3, 5, 6}
    /\ doctor.issues[1].description = "WP-CLI not found"
    /\ doctor.issues[Len(doctor.issues)].description = "Config file error"

\* C20: on an unchanged machine every run starts with an empty issues list,
\* and the report of a later run lists issues with the same descriptions, in
\* the same order, as the report of every earlier run listed when it was
\* returned.
C20_RerunEquivalent ==
    /\ doctor.pc = "checkWpCli" => doctor.issues = << >>
    /\ doctor.pc = "done" =>
          \A k \in 1..Len(returned) :
              Descriptions(ReportIssues(doctor)) = Descriptions(returned[k].listed)

\* C21: a report a run has returned does not change afterwards: read at any
\* later time, while further checks or another runAllChecks run on the same
\* DoctorCheck, it has the six check results, environment and issues, and
\* its issues are the issues it listed when it was returned.
C21_ReportImmutable ==
    \A k \in 1..Len(returned) :
        /\ DOMAIN returned[k].report = CheckNames \cup {"environment", "issues"}
        /\ KeptIssues(returned[k]) = returned[k].listed

-----------------------------------------------------------------------------
(* Properties of the commands *)

\* the checks that are not optional
RequiredChecks == CheckNames \ {"herd"}

\* C22: when the doctor command has ended, its exit code is non-zero if one
\* of the checks WP-CLI, PHP, MySQL, permissions, config returned ok: false,
\* and is zero if none did, whether or not Herd is installed.
C22_DoctorExitCode ==
    cli.pc = "exited" =>
        LET failed == \E name \in RequiredChecks : ~doctor.results[name].ok IN
        /\ failed => cli.exitCode # 0
        /\ ~failed => cli.exitCode = 0

\* the entries of a list with another name than name, in their order
Others(sites, name) == SelectSeq(sites, LAMBDA site : site.name # name)

\* the positions of the entries of a list called name
Named(sites, name) == { k \in 1..Len(sites) : sites[k].name = name }

\* C24: a step addSite(s) leaves exactly one entry named s.name; it is the
\* last entry and holds the path, database and (when given) creation time of
\* s; the entries with other names are those that were there before, unchanged
\* and in the same relative order.
C24_AddSiteReplaces ==
    [][\A s \in SiteData :
          registry' = addSite(registry, s) =>
            LET before == listAllSites(registry)
                after == listAllSites(registry')
                last == after[Len(after)]
            IN
            /\ registry'.readable
            /\ Named(after, s.name) = {Len(after)}
            /\ last.path = s.path
            /\ last.dbName = s.dbName
            /\ Truthy(s.created_at) => last.created_at = s.created_at
            /\ Truthy(last.created_at)
            /\ Others(after, s.name) = Others(before, s.name)
            /\ SubSeq(after, 1, Len(after) - 1) = Others(before, s.name)]_vars

\* three sites are registered; blog was added last, without a creation time,
\* under /srv/www
C24_Witness ==
    LET sites == listAllSites(registry) IN
    /\ Len(sites) = 3
    /\ sites[1].name = "shop"
    /\ sites[2].name = "docs"
    /\ sites[3].name = "blog"
    /\ sites[3].path = "/srv/www"
    /\ sites[3].created_at = toISOString(clock)

C23_DeleteRemovesAll ==
    ( /\ cli.command = "delete"
      /\ cli.pc = "exited"
      /\ cli.options = [yes |-> TRUE, keepDb |-> FALSE, keepFiles |-> FALSE,
                        dryRun |-> FALSE]
      /\ cli.site # NotFound
      /\ cli.dirExists
      /\ cli.deleted
      /\ cli.exitCode = 0 ) =>
        /\ ~existsSync(cli.site.path)
        /\ cli.site.dbName \notin databases
        /\ getSite(registry, cli.siteName) = NotFound

-----------------------------------------------------------------------------
(* Properties of the updater *)

\* C25: a call of shouldAutoCheck returns true when no last check is
\* recorded and when the last check was made 24 hours ago or more, exactly
\* 24 hours included; it returns false when the last check was made less
\* than 24 hours ago.
C25_DailyBoundaryInclusive ==
    [][(autoCheck' # autoCheck /\ UNCHANGED <<clock, lastUpdateCheck>>) =>
          /\ autoCheck'.asked
          /\ autoCheck'.value <=>
                \/ ~lastUpdateCheck.recorded
                \/ clock - lastUpdateCheck.ms >= 86400000]_vars

-----------------------------------------------------------------------------
(* Properties of the PHP version test *)

\* the issues the step reading php --version would append on out
OutdatedIssues(out) ==
    LET after == checkPhpVersion(doctor, out).issues IN
    SubSeq(after, Len(doctor.issues) + 1, Len(after))

\* C26: the step of checkPhp that reads a parsed version appends the
\* 'outdated' issue exactly when the version is below 7.4: major below 7, or
\* major 7 and minor below 4; 7.4.x and every major from 8 on add no issue;
\* two versions that differ in the patch number only get the same decision.
C26_OutdatedExactlyBelowMinimum ==
    [][/\ (doctor.pc = "php.version" /\ doctor'.pc = "php.modules") =>
            LET major == doctor'.triple[1]
                minor == doctor'.triple[2]
            IN
            /\ (major < 7 \/ (major = 7 /\ minor < 4)) <=>
                  Descriptions(Appended) = << OutdatedDescription(doctor'.triple) >>
            /\ (major >= 8 \/ (major = 7 /\ minor = 4)) => Appended = << >>
            /\ Len(Appended) <= 1
       /\ doctor.pc = "php.version" =>
            \A o1, o2 \in { o \in PhpReleases : o.ok /\ Len(o.stdout.triple) = 3 } :
               ( /\ o1.stdout.triple[1] = o2.stdout.triple[1]
                 /\ o1.stdout.triple[2] = o2.stdout.triple[2] ) =>
                  Len(OutdatedIssues(o1)) = Len(OutdatedIssues(o2))]_vars

\* php --version printed 7.10.33 and no issue was recorded, and checkPhp
\* went on to php -m
C26_Witness ==
    /\ doctor.pc = "php.modules"
    /\ doctor.triple = << 7, 10, 33 >>
    /\ doctor.version = "7.10.33"
    /\ doctor.issues = << >>

-----------------------------------------------------------------------------
(* Properties of checkMySQL next to the connection cache *)

\* the connection probes of a detection are all made as root
ProbesAsRoot(d) ==
    \A k \in 2..Len(d.log) : \E a \in 1..Len(d.log[k].args) : d.log[k].args[a] = "-uroot"

\* C27: every call of checkMySQL whose mysql --version succeeds starts a new
\* detection, whatever connectionCache holds; the detection probes as root;
\* the connection checkMySQL returns is the one that detection has just
\* found; and no step of checkMySQL changes connectionCache.
C27_CheckMySQLNotMemoized ==
    [][doctor' # doctor =>
          /\ connectionCache' = connectionCache
          /\ (doctor.pc = "mysql.version" /\ doctor'.log[Len(doctor'.log)].status = "ok") =>
                /\ doctor'.pc = "mysql.detect"
                /\ doctor'.det = DetectStart
          /\ doctor'.pc = "mysql.detect" => ProbesAsRoot(doctor'.det)
          /\ ( /\ doctor.pc \in {"mysql.version", "mysql.detect"}
                /\ doctor'.pc = "checkHerd"
                /\ doctor'.results["mysql"].ok ) =>
                /\ doctor.pc = "mysql.detect"
                /\ doctor'.det.pc = "returned"
                /\ doctor'.det.log[Len(doctor'.det.log)].status = "ok"
                /\ ProbesAsRoot(doctor'.det)
                /\ doctor'.results["mysql"].connection = doctor'.det.value]_vars

\* getMySQLConnection has cached a connection for root, and a second call of
\* checkMySQL is starting a detection all the same
C27_Witness ==
    /\ calls[1].pc = "done"
    /\ Truthy(connectionCache["root"])
    /\ Len(doctor.log) = 2
    /\ doctor.pc = "mysql.detect"
    /\ doctor.det = DetectStart

====
